---- MODULE Spec2Model ----
(***************************************************************************)
(* A model of cryptopanic_bot.py: the CryptoPanicBot update cycle          *)
(* (send_news_update), its change detector (should_send_update), the feed  *)
(* client (fetch_cryptopanic_api), the narrative step                      *)
(* (generate_fud_analysis), the composer (format_telegram_message) and the *)
(* two triggers of a cycle: the periodic task (schedule_updates) and the   *)
(* /news command handler (news_command).                                   *)
(*                                                                         *)
(* The bot runs on one asyncio event loop: the code between two awaits is  *)
(* one atomic step, and a task may be suspended at every await while the   *)
(* other task runs.  Titles, sources, urls and currency codes are strings;  *)
(* a message is modelled by the sequence of its sections.                  *)
(***************************************************************************)
EXTENDS Naturals, Sequences, FiniteSets

VARIABLES
    last_sent_news,  \* self.last_sent_news: <<>> models the empty dict {}
    openai_client,   \* self.openai_client is set (OPENAI_API_KEY given)
    api_key,         \* CRYPTOPANIC_API_KEY is set
    pc,              \* per task: the await at which it is suspended
    news_data,       \* per task: the local news_data of send_news_update
    fud_analysis,    \* per task: the local fud_analysis
    message,         \* per task: the local message
    outcome,         \* per task: the closing log line of its latest cycle
    decided,         \* per task: what should_send_update returned, if called
    got_items,       \* per task: whether the snapshot its latest cycle fetched holds an item
    fetch_err,       \* per task: the fetch that has just returned to its cycle logged an error
    narr_reqs,       \* per task: generate_fud_analysis calls of its latest cycle
    attempts,        \* per task: bot.send_message calls of its latest cycle
    delivered,       \* per task: what bot.send_message did, if it returned
    reply,           \* the verdict the latest /news caller has received
    overlap,         \* two cycles have been in flight together since the bot was last quiet
    prev,            \* the latest completed cycle, if no other cycle overlapped it
    follows,         \* per task: outcome of the cycle it directly follows with the same snapshot
    last_delivered,  \* the snapshot of the latest send_message that returned, <<>> if none has
    shutdown,        \* run(): the main task waits, is stopping the app, or has cancelled the scheduler
    c_news,          \* composer harness: the news_data argument, as the call leaves it
    c_given,         \* composer harness: the news_data argument as it was passed in
    c_fud,           \* composer harness: the fud_analysis argument
    c_out,           \* composer harness: the value returned
    d_prev,          \* detector harness: self.last_sent_news
    d_cur,           \* detector harness: the news_data argument
    d_result         \* detector harness: the value returned

cycleVars == <<last_sent_news, openai_client, api_key, pc, news_data, fud_analysis,
               message, outcome, decided, got_items, fetch_err, narr_reqs, attempts,
               delivered, reply, overlap, prev, follows, last_delivered, shutdown>>
detVars == <<d_prev, d_cur, d_result>>
compVars == <<c_news, c_given, c_fud, c_out>>
\* what no step of a cycle touches
offVars == <<shutdown, detVars, compVars>>
vars == <<cycleVars, detVars, compVars>>

(***************************************************************************)
(* Bounds and program constants                                            *)
(***************************************************************************)
\* the most bullish posts the feed holds in the cycle model
MaxItems == 2
\* the longest category list handed to the detector harness
MaxLen == 2
\* the longest category list handed to the composer harness
MaxBlock == 6
\* new_items >= 3
Threshold == 3
\* news_data[...][:5]
DisplayCap == 5
\* len(title) > 100
TitleMax == 100
\* title[:97]
TitleKeep == 97

Sentiments == <<"bullish", "bearish", "neutral">>
SentimentSet == {Sentiments[i] : i \in 1..Len(Sentiments)}
Triggers == {"timer", "cmd"}
InFlight == {"fetching", "narrating", "sending"}

\* self.last_sent_news = {}
EmptyDict == <<>>
\* no local value (the coroutine is not running)
NoData == <<>>

Min(a, b) == IF a < b THEN a ELSE b

(***************************************************************************)
(* Snapshots                                                               *)
(***************************************************************************)
\* the dict appended to news_data[sentiment]
FullItem(title, url, source, currencies, sentiment) ==
    [title |-> title, url |-> url, source |-> source, published_at |-> "",
     currencies |-> currencies, sentiment |-> sentiment]

\* one entry appended to news_data[sentiment] for a post that carries a
\* title only: the other fields take the defaults of item.get
NewsItem(title, sentiment) == FullItem(title, "", "Unknown", <<>>, sentiment)

\* str(i) of a natural number
RECURSIVE Str(_)
Str(i) ==
    IF i < 10 THEN SubSeq("0123456789", i + 1, i + 1)
    ELSE Str(i \div 10) \o SubSeq("0123456789", (i % 10) + 1, (i % 10) + 1)

\* the title of the i-th post of the modelled feed
TitleNo(i) == "post " \o Str(i)

\* the news_data literal a fetch starts from
EmptyNews == [bullish |-> <<>>, bearish |-> <<>>, neutral |-> <<>>]

\* the loop "for item in data.get('results', [])" of one category
ProcessResults(results, sentiment) ==
    [i \in 1..Len(results) |-> NewsItem(results[i], sentiment)]

\* a slip: the number of categories, len(news_data), for the number of items
total_news_Keys(news) == Cardinality(DOMAIN news)

\* sum(len(items) for items in news_data.values())
total_news(news) == Len(news.bullish) + Len(news.bearish) + Len(news.neutral)

\* {item["title"] for item in items}
TitleSet(items) == {items[i].title : i \in 1..Len(items)}

\* self.last_sent_news.get(sentiment, [])
DictGet(d, key) == IF key \in DOMAIN d THEN d[key] ELSE <<>>

\* new_titles = current_titles - previous_titles, per sentiment
NewTitles(last, news, sentiment) ==
    TitleSet(news[sentiment]) \ TitleSet(DictGet(last, sentiment))

\* the new_items counter after the loop over the three sentiments
NewItems(last, news) ==
    Cardinality(NewTitles(last, news, "bullish"))
    + Cardinality(NewTitles(last, news, "bearish"))
    + Cardinality(NewTitles(last, news, "neutral"))

\* a slip: the size of the current snapshot for the number of new titles
should_send_update_NoDiff(last, news) ==
    IF DOMAIN last = {} THEN TRUE ELSE total_news(news) >= Threshold

\* a slip: more than the threshold for at least the threshold
should_send_update_Over(last, news) ==
    IF DOMAIN last = {} THEN TRUE ELSE NewItems(last, news) > Threshold

\* a slip: the first-cycle test left out
should_send_update_NoFirst(last, news) == NewItems(last, news) >= Threshold

\* item["title"] raises KeyError on an item of the list
LacksTitle(items) == \E i \in 1..Len(items) : "title" \notin DOMAIN items[i]

\* one of the six set comprehensions of the loop raises
ComparisonRaises(last, news) ==
    \E s \in SentimentSet : LacksTitle(news[s]) \/ LacksTitle(DictGet(last, s))

\* a slip: the except clause returns False
should_send_update_FailClosed(last, news) ==
    IF DOMAIN last = {} THEN TRUE
    ELSE IF ComparisonRaises(last, news) THEN FALSE
    ELSE NewItems(last, news) >= Threshold

\* should_send_update: "not self.last_sent_news" is true of the empty dict
\* only; an exception raised by the comparison is caught and the except
\* clause returns True (lines 332-334)
should_send_update(last, news) ==
    IF DOMAIN last = {} THEN TRUE
    ELSE IF ComparisonRaises(last, news) THEN TRUE
    ELSE NewItems(last, news) >= Threshold

(***************************************************************************)
(* The feed client                                                         *)
(***************************************************************************)
\* what one client.get does: a 200 response with a result list, another
\* status code, an exception raised by the get (network error, timeout),
\* or a 200 response whose body response.json() cannot parse.  The feed
\* holds at most MaxItems bullish posts and one post in each of the other
\* two categories; a result list is the first n posts of its category.
FeedCap(sentiment) == IF sentiment = "bullish" THEN MaxItems ELSE 1
FeedLists(sentiment) == {[i \in 1..n |-> TitleNo(i)] : n \in 0..FeedCap(sentiment)}
Responses(sentiment) ==
    {[kind |-> "ok", results |-> l] : l \in FeedLists(sentiment)}
    \cup {[kind |-> "http_error"], [kind |-> "get_raises"], [kind |-> "bad_json"]}
FeedReplies ==
    {[bullish |-> b, bearish |-> r, neutral |-> n] :
        b \in Responses("bullish"), r \in Responses("bearish"), n \in Responses("neutral")}

\* one "Process ... news" block: acc is the news_data built so far, whether
\* an error was logged, and whether an exception has left the try block
ProcessResponse(acc, r, sentiment) ==
    IF acc.raised THEN acc
    ELSE IF r.kind = "ok"
         THEN [acc EXCEPT !.news[sentiment] = ProcessResults(r.results, sentiment)]
    ELSE IF r.kind = "http_error"
         THEN [acc EXCEPT !.err = TRUE]
    ELSE [acc EXCEPT !.err = TRUE, !.raised = TRUE]

\* fetch_cryptopanic_api: the three gets are awaited first, then the three
\* responses are processed in order; the except clause returns news_data
\* as it stands when the exception is raised
fetch_cryptopanic_api(key, resp) ==
    LET start == [news |-> EmptyNews, err |-> FALSE, raised |-> FALSE]
    IN  IF ~key THEN start
        ELSE IF \E s \in SentimentSet : resp[s].kind = "get_raises"
             THEN [start EXCEPT !.err = TRUE, !.raised = TRUE]
        ELSE ProcessResponse(
                 ProcessResponse(
                     ProcessResponse(start, resp.bullish, "bullish"),
                     resp.bearish, "bearish"),
                 resp.neutral, "neutral")

\* every value a fetch can return: the snapshot and whether an error was logged
FetchResultsWithKey == {fetch_cryptopanic_api(TRUE, resp) : resp \in FeedReplies}
FetchResultsNoKey == {fetch_cryptopanic_api(FALSE, resp) : resp \in FeedReplies}
FetchResults(key) == IF key THEN FetchResultsWithKey ELSE FetchResultsNoKey

(***************************************************************************)
(* The narrative step                                                      *)
(***************************************************************************)
\* what the chat completion call does: raises, or returns a content that
\* strips to the text given
NarrativeResults ==
    {[kind |-> "raises"], [kind |-> "ok", text |-> ""], [kind |-> "ok", text |-> "analysis"]}

\* a slip: no except clause, the exception of the completion call leaves
generate_fud_analysis_Propagates(client, result) ==
    IF ~client THEN [raised |-> FALSE, text |-> ""]
    ELSE IF result.kind = "raises" THEN [raised |-> TRUE, text |-> ""]
    ELSE [raised |-> FALSE, text |-> result.text]

\* generate_fud_analysis: the text returned, and whether an exception
\* leaves the function (its except clause catches every Exception)
generate_fud_analysis(client, result) ==
    IF ~client THEN [raised |-> FALSE, text |-> ""]
    ELSE IF result.kind = "raises" THEN [raised |-> FALSE, text |-> ""]
    ELSE [raised |-> FALSE, text |-> result.text]

(***************************************************************************)
(* The composer                                                            *)
(***************************************************************************)
\* a slip: a title of exactly the limit is cut too
TruncateTitle_AtLimit(title) ==
    IF Len(title) >= TitleMax THEN SubSeq(title, 1, TitleKeep) \o "..." ELSE title

\* if len(title) > 100: title = title[:97] + "..."
TruncateTitle(title) ==
    IF Len(title) > TitleMax THEN SubSeq(title, 1, TitleKeep) \o "..." ELSE title

\* sep.join(codes)
RECURSIVE Join(_, _)
Join(codes, sep) ==
    IF Len(codes) = 0 THEN ""
    ELSE IF Len(codes) = 1 THEN codes[1]
    ELSE codes[1] \o sep \o Join(Tail(codes), sep)

\* currencies = "", replaced by " [A, B]" if item["currencies"] is not empty
CurrencyText(codes) ==
    IF Len(codes) = 0 THEN "" ELSE " [" \o Join(codes, ", ") \o "]"

\* the two lines of one entry: "{i}. [{title}]({url}){currencies}" and
\* "   *Source:* {source}"
RenderItem(i, item) ==
    [num |-> i,
     title |-> TruncateTitle(item.title),
     url |-> item.url,
     currencies |-> CurrencyText(item.currencies),
     source |-> item.source]

\* a slip: the slice [:5] left out
RenderItems_NoCap(items) == [i \in 1..Len(items) |-> RenderItem(i, items[i])]

\* the numbered entries of one category: enumerate(items[:5], 1)
RenderItems(items) ==
    [i \in 1..Min(DisplayCap, Len(items)) |-> RenderItem(i, items[i])]

\* a slip: the header of a category is written whether or not it has items
CategoryBlock_Always(news, sentiment) ==
    <<[block |-> sentiment, entries |-> RenderItems(news[sentiment])]>>

\* one category block, emitted only if the list is non-empty
CategoryBlock(news, sentiment) ==
    IF Len(news[sentiment]) > 0
    THEN <<[block |-> sentiment, entries |-> RenderItems(news[sentiment])]>>
    ELSE <<>>

\* the keys of an item in the order in which the loop body reads them
ItemKeys == <<"currencies", "title", "url", "source">>

\* the key whose lookup raises KeyError on this item, "" if none does
MissingKey(item) ==
    LET absent == {k \in 1..Len(ItemKeys) : ItemKeys[k] \notin DOMAIN item}
    IN  IF absent = {} THEN ""
        ELSE ItemKeys[CHOOSE k \in absent : \A m \in absent : k <= m]

\* the items the three loops visit, in the order in which they visit them
Visited(news) ==
    SubSeq(news.bullish, 1, Min(DisplayCap, Len(news.bullish)))
    \o SubSeq(news.bearish, 1, Min(DisplayCap, Len(news.bearish)))
    \o SubSeq(news.neutral, 1, Min(DisplayCap, Len(news.neutral)))

\* str(e) of the first exception raised in the try block, "" if none is
FormatError(news) ==
    LET seen == Visited(news)
        bad == {k \in 1..Len(seen) : MissingKey(seen[k]) # ""}
    IN  IF bad = {} THEN ""
        ELSE "'" \o MissingKey(seen[CHOOSE k \in bad : \A m \in bad : k <= m]) \o "'"

\* the message when no exception is raised: header, analysis if given,
\* the three category blocks, timestamp and disclaimer
Sections(news, fud) ==
    <<[block |-> "header"]>>
    \o (IF fud # "" THEN <<[block |-> "analysis", text |-> fud]>> ELSE <<>>)
    \o CategoryBlock(news, "bullish")
    \o CategoryBlock(news, "bearish")
    \o CategoryBlock(news, "neutral")
    \o <<[block |-> "footer"]>>

\* a slip: no except clause, the exception leaves the composer
format_telegram_message_NoExcept(news, fud) ==
    IF FormatError(news) # ""
    THEN <<[block |-> "raised", text |-> FormatError(news)]>>
    ELSE Sections(news, fud)

\* format_telegram_message: the message as its sequence of sections, or
\* the text returned by the except clause
format_telegram_message(news, fud) ==
    IF FormatError(news) # ""
    THEN <<[block |-> "error", text |-> "Error formatting news: " \o FormatError(news)]>>
    ELSE Sections(news, fud)

(***************************************************************************)
(* The commit                                                              *)
(***************************************************************************)
\* a slip: the assignment placed before the send, so a failed send keeps it
CommitState_Always(last, news, sent_ok) == news

\* a slip: only part of the snapshot is stored
CommitState_Partial(last, news, sent_ok) ==
    IF sent_ok THEN [news EXCEPT !.neutral = <<>>] ELSE last

\* a slip: the except clause resets the state
CommitState_Forgets(last, news, sent_ok) == IF sent_ok THEN news ELSE EmptyDict

\* lines 365-373: the assignment is reached only if send_message returned
CommitState(last, news, sent_ok) == IF sent_ok THEN news ELSE last

\* the closing log line of a cycle whose send_message returned or raised
SendOutcome(sent_ok) == IF sent_ok THEN "sent" ELSE "error"

(***************************************************************************)
(* The cycle: send_news_update, one action per await                       *)
(***************************************************************************)
\* the record kept of a completed cycle: nothing is known
NoCycle == [outcome |-> "none", news |-> NoData]

\* a slip: the scheduler loop ends when a cycle has returned
AfterCycle_LoopEnds(t) == IF t = "cmd" THEN "replying" ELSE "ended"

\* where a task goes when send_news_update returns: the /news handler to
\* its reply_text (line 70), the scheduler to asyncio.sleep (line 389)
AfterCycle(t) == IF t = "cmd" THEN "replying" ELSE "idle"

\* another task is inside send_news_update
OtherInFlight(t) == \E o \in Triggers \ {t} : pc[o] \in InFlight

\* what is remembered of the cycle of t that completes now
Completed(t, oc, news) ==
    IF overlap THEN NoCycle ELSE [outcome |-> oc, news |-> news]

\* send_news_update is called with an API key: the logs of the previous
\* cycle of t are cleared and the task is suspended in the fetch (line 342)
BeginCycle(t) ==
    /\ pc' = [pc EXCEPT ![t] = "fetching"]
    /\ outcome' = [outcome EXCEPT ![t] = "none"]
    /\ decided' = [decided EXCEPT ![t] = "none"]
    /\ got_items' = [got_items EXCEPT ![t] = "none"]
    /\ fetch_err' = [fetch_err EXCEPT ![t] = FALSE]
    /\ narr_reqs' = [narr_reqs EXCEPT ![t] = 0]
    /\ attempts' = [attempts EXCEPT ![t] = 0]
    /\ delivered' = [delivered EXCEPT ![t] = "none"]
    /\ follows' = [follows EXCEPT ![t] = "none"]
    /\ overlap' = OtherInFlight(t)
    /\ prev' = IF OtherInFlight(t) THEN NoCycle ELSE prev
    /\ UNCHANGED <<last_sent_news, openai_client, api_key, news_data, fud_analysis,
                   message, last_delivered>>

\* send_news_update is called with no API key: fetch_cryptopanic_api
\* returns its empty news_data at line 86 without reaching an await, so
\* the task is not suspended and runs on through the total_news test
\* (lines 345-348) to the await that follows the cycle
CycleWithoutKey(t) ==
    \E f \in FetchResultsNoKey :
        /\ total_news(f.news) = 0
        /\ pc' = [pc EXCEPT ![t] = AfterCycle(t)]
        /\ outcome' = [outcome EXCEPT ![t] = "no_news"]
        /\ decided' = [decided EXCEPT ![t] = "none"]
        /\ got_items' = [got_items EXCEPT ![t] = "no"]
        /\ fetch_err' = [fetch_err EXCEPT ![t] = f.err]
        /\ narr_reqs' = [narr_reqs EXCEPT ![t] = 0]
        /\ attempts' = [attempts EXCEPT ![t] = 0]
        /\ delivered' = [delivered EXCEPT ![t] = "none"]
        /\ follows' = [follows EXCEPT ![t] = "none"]
        /\ overlap' = OtherInFlight(t)
        /\ prev' = IF OtherInFlight(t) THEN NoCycle
                   ELSE [outcome |-> "no_news", news |-> NoData]
        /\ UNCHANGED <<last_sent_news, openai_client, api_key, news_data, fud_analysis,
                       message, last_delivered>>

\* send_news_update is called by task t and runs to its first await
StartCycle(t) == IF api_key THEN BeginCycle(t) ELSE CycleWithoutKey(t)

\* schedule_updates: the sleep is over (or the task has just been created)
\* and the loop calls send_news_update (line 384)
TimerFire ==
    /\ pc["timer"] = "idle"
    /\ StartCycle("timer")
    /\ UNCHANGED <<reply, offVars>>

\* news_command is entered: the "please wait" reply of line 67 returns and
\* the handler calls send_news_update (line 69).  (If that reply raises,
\* outside the try, the handler ends and nothing has changed.)
NewsCommand ==
    /\ pc["cmd"] = "idle"
    /\ shutdown # "stopped"
    /\ reply' = "none"
    /\ StartCycle("cmd")
    /\ UNCHANGED offVars

\* the cycle of t returns: when no cycle is left in flight the bot is quiet
EndOverlap(t) == IF OtherInFlight(t) THEN overlap ELSE FALSE

\* the fetch returns (line 342) and the cycle runs to its next await: the
\* total_news test, should_send_update, then the narrative call (line 358)
\* or, with no OpenAI client, the composer and send_message (line 365)
FetchReturn(t, f) ==
    /\ pc[t] = "fetching"
    /\ LET news == f.news
           empty == total_news(news) = 0
           send == should_send_update(last_sent_news, news)
           ends == empty \/ ~send
           oc == IF empty THEN "no_news" ELSE "not_significant"
       IN  /\ fetch_err' = [fetch_err EXCEPT ![t] = f.err]
           /\ got_items' = [got_items EXCEPT ![t] =
                              IF \E s \in SentimentSet : Len(news[s]) > 0
                              THEN "yes" ELSE "no"]
           /\ follows' = [follows EXCEPT ![t] =
                            IF prev.news = news THEN prev.outcome ELSE "none"]
           /\ decided' = [decided EXCEPT ![t] =
                            IF empty THEN "none" ELSE IF send THEN "yes" ELSE "no"]
           /\ outcome' = [outcome EXCEPT ![t] = IF ends THEN oc ELSE "none"]
           /\ prev' = IF ends THEN Completed(t, oc, NoData) ELSE NoCycle
           /\ overlap' = IF ends THEN EndOverlap(t) ELSE overlap
           /\ pc' = [pc EXCEPT ![t] =
                       IF ends THEN AfterCycle(t)
                       ELSE IF openai_client THEN "narrating" ELSE "sending"]
           /\ news_data' = [news_data EXCEPT ![t] = IF ends THEN NoData ELSE news]
           /\ narr_reqs' = [narr_reqs EXCEPT ![t] =
                              IF ~ends /\ openai_client THEN 1 ELSE 0]
           /\ message' = [message EXCEPT ![t] =
                            IF ~ends /\ ~openai_client
                            THEN format_telegram_message(news, "") ELSE NoData]
           /\ attempts' = [attempts EXCEPT ![t] =
                             IF ~ends /\ ~openai_client THEN 1 ELSE 0]
    /\ UNCHANGED <<last_sent_news, openai_client, api_key, fud_analysis, delivered,
                   reply, last_delivered, offVars>>

\* generate_fud_analysis returns (line 358); the message is composed and
\* send_message is awaited (lines 361-365).  An exception leaving the call
\* would reach the except clause of line 377 and end the cycle.
NarrativeReturn(t, result) ==
    /\ pc[t] = "narrating"
    /\ LET g == generate_fud_analysis(openai_client, result)
       IN  IF g.raised
           THEN /\ outcome' = [outcome EXCEPT ![t] = "error"]
                /\ pc' = [pc EXCEPT ![t] = AfterCycle(t)]
                /\ prev' = Completed(t, "error", news_data[t])
                /\ overlap' = EndOverlap(t)
                /\ news_data' = [news_data EXCEPT ![t] = NoData]
                /\ UNCHANGED <<fud_analysis, message, attempts>>
           ELSE /\ fud_analysis' = [fud_analysis EXCEPT ![t] = g.text]
                /\ message' = [message EXCEPT ![t] =
                                 format_telegram_message(news_data[t], g.text)]
                /\ attempts' = [attempts EXCEPT ![t] = attempts[t] + 1]
                /\ pc' = [pc EXCEPT ![t] = "sending"]
                /\ UNCHANGED <<news_data, outcome, overlap, prev>>
    /\ fetch_err' = [fetch_err EXCEPT ![t] = FALSE]
    /\ UNCHANGED <<last_sent_news, openai_client, api_key, decided, got_items,
                   narr_reqs, delivered, reply, follows, last_delivered, offVars>>

\* send_message returns, and line 373 assigns last_sent_news, or it raises
\* and the except clause of line 377 logs the error; the cycle returns
SendReturn(t, sent_ok) ==
    /\ pc[t] = "sending"
    /\ last_sent_news' = CommitState(last_sent_news, news_data[t], sent_ok)
    /\ last_delivered' = IF sent_ok THEN news_data[t] ELSE last_delivered
    /\ outcome' = [outcome EXCEPT ![t] = SendOutcome(sent_ok)]
    /\ delivered' = [delivered EXCEPT ![t] = IF sent_ok THEN "yes" ELSE "no"]
    /\ prev' = Completed(t, SendOutcome(sent_ok), news_data[t])
    /\ overlap' = EndOverlap(t)
    /\ pc' = [pc EXCEPT ![t] = AfterCycle(t)]
    /\ news_data' = [news_data EXCEPT ![t] = NoData]
    /\ fud_analysis' = [fud_analysis EXCEPT ![t] = ""]
    /\ message' = [message EXCEPT ![t] = NoData]
    /\ fetch_err' = [fetch_err EXCEPT ![t] = FALSE]
    /\ UNCHANGED <<openai_client, api_key, decided, got_items, narr_reqs, attempts,
                   reply, follows, offVars>>

\* send_news_update has returned to news_command, which never sees an
\* exception of the cycle: the "sent" reply of line 70 reaches the caller
ReplySent ==
    /\ pc["cmd"] = "replying"
    /\ reply' = "sent"
    /\ pc' = [pc EXCEPT !["cmd"] = "idle"]
    /\ UNCHANGED <<last_sent_news, openai_client, api_key, news_data, fud_analysis,
                   message, outcome, decided, got_items, fetch_err, narr_reqs, attempts,
                   delivered, overlap, prev, follows, last_delivered, offVars>>

\* the reply of line 70 raises: the except clause logs the error and the
\* handler is suspended in the error reply of line 73
ReplyRaises ==
    /\ pc["cmd"] = "replying"
    /\ pc' = [pc EXCEPT !["cmd"] = "reporting"]
    /\ UNCHANGED <<last_sent_news, openai_client, api_key, news_data, fud_analysis,
                   message, outcome, decided, got_items, fetch_err, narr_reqs, attempts,
                   delivered, reply, overlap, prev, follows, last_delivered, offVars>>

\* the error reply of line 73 reaches the caller (ok) or raises too, the
\* exception leaving the handler; the handler ends
ErrorReplyReturn(ok) ==
    /\ pc["cmd"] = "reporting"
    /\ reply' = IF ok THEN "error" ELSE reply
    /\ pc' = [pc EXCEPT !["cmd"] = "idle"]
    /\ UNCHANGED <<last_sent_news, openai_client, api_key, news_data, fud_analysis,
                   message, outcome, decided, got_items, fetch_err, narr_reqs, attempts,
                   delivered, overlap, prev, follows, last_delivered, offVars>>

\* the state after CryptoPanicBot() and run(): nothing sent, no task in a cycle
CycleInit ==
    /\ last_sent_news = EmptyDict
    /\ pc = [t \in Triggers |-> "idle"]
    /\ news_data = [t \in Triggers |-> NoData]
    /\ fud_analysis = [t \in Triggers |-> ""]
    /\ message = [t \in Triggers |-> NoData]
    /\ outcome = [t \in Triggers |-> "none"]
    /\ decided = [t \in Triggers |-> "none"]
    /\ got_items = [t \in Triggers |-> "none"]
    /\ fetch_err = [t \in Triggers |-> FALSE]
    /\ narr_reqs = [t \in Triggers |-> 0]
    /\ attempts = [t \in Triggers |-> 0]
    /\ delivered = [t \in Triggers |-> "none"]
    /\ reply = "none"
    /\ overlap = FALSE
    /\ prev = NoCycle
    /\ follows = [t \in Triggers |-> "none"]
    /\ last_delivered = EmptyDict
    /\ shutdown = "running"

\* the detector harness is not in use
DetectorIdle ==
    /\ d_prev = EmptyDict
    /\ d_cur = EmptyNews
    /\ d_result = "unused"

\* the composer harness is not in use
ComposerIdle ==
    /\ c_news = EmptyNews
    /\ c_given = EmptyNews
    /\ c_fud = ""
    /\ c_out = NoData

Init ==
    /\ CycleInit
    /\ openai_client \in BOOLEAN
    /\ api_key \in BOOLEAN
    /\ DetectorIdle
    /\ ComposerIdle

Next ==
    \/ TimerFire
    \/ NewsCommand
    \/ \E t \in Triggers, f \in FetchResults(api_key) : FetchReturn(t, f)
    \/ \E t \in Triggers, result \in NarrativeResults : NarrativeReturn(t, result)
    \/ \E t \in Triggers, sent_ok \in BOOLEAN : SendReturn(t, sent_ok)
    \/ ReplySent
    \/ ReplyRaises
    \/ \E ok \in BOOLEAN : ErrorReplyReturn(ok)

Spec == Init /\ [][Next]_vars

\* the steps of the scheduler task.  Each of its awaits returns: the sleep
\* of line 389 ends after UPDATE_INTERVAL, the gets of the fetch carry
\* timeout=10.0, the OpenAI and Telegram clients time their requests out.
\* Nothing is assumed of when a /news command arrives.
TimerStep ==
    \/ TimerFire
    \/ \E f \in FetchResults(api_key) : FetchReturn("timer", f)
    \/ \E result \in NarrativeResults : NarrativeReturn("timer", result)
    \/ \E sent_ok \in BOOLEAN : SendReturn("timer", sent_ok)

\* the bot with an OpenAI client, with or without an API key for the
\* feed: a cycle then passes every await it has (fetch, narrative, send)
InitLive == Init /\ openai_client = TRUE

SpecLive == InitLive /\ [][Next]_vars /\ WF_vars(TimerStep)

(***************************************************************************)
(* Shutdown: run() and the cancellation of the tasks                       *)
(***************************************************************************)
\* the awaits at which a task can be cancelled while it has work in hand
Suspended == InFlight \cup {"replying", "reporting"}

\* CancelledError is thrown into task t at the await it is suspended at.
\* It is not an Exception, so no except clause of the cycle catches it
\* (lines 160, 238, 377, 385): the coroutines unwind, their locals are
\* dropped, nothing is logged and no statement after the await runs.
Abandon(t) ==
    /\ pc' = [pc EXCEPT ![t] = "cancelled"]
    /\ news_data' = [news_data EXCEPT ![t] = NoData]
    /\ fud_analysis' = [fud_analysis EXCEPT ![t] = ""]
    /\ message' = [message EXCEPT ![t] = NoData]
    /\ fetch_err' = [fetch_err EXCEPT ![t] = FALSE]
    /\ overlap' = IF pc[t] \in InFlight THEN EndOverlap(t) ELSE overlap
    /\ prev' = IF pc[t] \in InFlight THEN NoCycle ELSE prev
    /\ UNCHANGED <<last_sent_news, openai_client, api_key, outcome, decided, got_items,
                   narr_reqs, attempts, delivered, reply, follows, last_delivered>>

\* the shutdown signal: the main task is cancelled in its wait of line 408
\* and the except clause awaits self.app.stop() (line 411); the scheduler
\* task has not been cancelled yet and runs while that await is pending
ShutdownSignal ==
    /\ shutdown = "running"
    /\ shutdown' = "stopping"
    /\ UNCHANGED <<last_sent_news, openai_client, api_key, pc, news_data, fud_analysis,
                   message, outcome, decided, got_items, fetch_err, narr_reqs, attempts,
                   delivered, reply, overlap, prev, follows, last_delivered, detVars,
                   compVars>>

\* app.stop() has returned and scheduler_task.cancel() is called (line 412):
\* the scheduler is cancelled in its sleep or at the await of its cycle
CancelScheduler ==
    /\ shutdown = "stopping"
    /\ shutdown' = "stopped"
    /\ Abandon("timer")
    /\ UNCHANGED <<detVars, compVars>>

\* the /news handler in flight when the bot shuts down either runs on to
\* its end (the steps of its cycle) or is cancelled at its await when the
\* event loop is closed
CancelHandler ==
    /\ shutdown # "running"
    /\ pc["cmd"] \in Suspended
    /\ Abandon("cmd")
    /\ UNCHANGED offVars

NextShutdown ==
    \/ TimerFire
    \/ NewsCommand
    \/ \E t \in Triggers, f \in FetchResults(api_key) : FetchReturn(t, f)
    \/ \E t \in Triggers, result \in NarrativeResults : NarrativeReturn(t, result)
    \/ \E t \in Triggers, sent_ok \in BOOLEAN : SendReturn(t, sent_ok)
    \/ ReplySent
    \/ ReplyRaises
    \/ \E ok \in BOOLEAN : ErrorReplyReturn(ok)
    \/ ShutdownSignal
    \/ CancelScheduler
    \/ CancelHandler

SpecShutdown == Init /\ [][NextShutdown]_vars

(***************************************************************************)
(* The detector alone: should_send_update applied to bounded inputs        *)
(***************************************************************************)
DetTitles == {TitleNo(1), TitleNo(2)}

\* every title list of length at most MaxLen, duplicates and every order included
DetLists == UNION {[1..n -> DetTitles] : n \in 0..MaxLen}

\* the lists that hold each title at most once, in increasing order: one
\* list for every set of titles
DetSetLists ==
    {[k \in 1..Len(l) |-> TitleNo(l[k])] :
        l \in {m \in UNION {[1..n -> 1..Cardinality(DetTitles)] :
                                n \in 0..Cardinality(DetTitles)} :
                  \A i \in 1..Len(m), j \in 1..Len(m) : i < j => m[i] < m[j]}}

\* a snapshot built as a fetch builds it, from one title list per category
SnapshotOf(b, r, n) ==
    [bullish |-> ProcessResults(b, "bullish"),
     bearish |-> ProcessResults(r, "bearish"),
     neutral |-> ProcessResults(n, "neutral")]

\* the news_data arguments of the harness
DetCurrents == {SnapshotOf(b, r, n) : b \in DetLists, r \in DetLists, n \in DetLists}

\* the values of self.last_sent_news of the harness: the empty dict, or a
\* snapshot committed earlier (should_send_update reads it as title sets)
DetPrevious ==
    {EmptyDict}
    \cup {SnapshotOf(b, r, n) : b \in DetSetLists, r \in DetSetLists, n \in DetSetLists}

InitDetect ==
    /\ CycleInit
    /\ openai_client = FALSE
    /\ api_key = TRUE
    /\ d_prev \in DetPrevious
    /\ d_cur \in DetCurrents
    /\ d_result = "pending"
    /\ ComposerIdle

\* self.should_send_update(news_data) with self.last_sent_news = d_prev
Detect ==
    /\ d_result = "pending"
    /\ d_result' = IF should_send_update(d_prev, d_cur) THEN "yes" ELSE "no"
    /\ UNCHANGED <<cycleVars, d_prev, d_cur, compVars>>

NextDetect == Detect

SpecDetect == InitDetect /\ [][NextDetect]_vars

(***************************************************************************)
(* The detector on malformed snapshots                                     *)
(***************************************************************************)
\* an item that has no title
Untitled(sentiment) ==
    [url |-> "", source |-> "Unknown", published_at |-> "", currencies |-> <<>>,
     sentiment |-> sentiment]

\* the items a list of this harness is made of
RawItems(sentiment) ==
    {NewsItem(TitleNo(1), sentiment), NewsItem(TitleNo(2), sentiment), Untitled(sentiment)}

\* every list of at most MaxLen of these items
RawLists(sentiment) == UNION {[1..n -> RawItems(sentiment)] : n \in 0..MaxLen}

\* the lists of the other categories and of the previous snapshot
RawShort(sentiment) ==
    {<<>>, <<NewsItem(TitleNo(1), sentiment)>>, <<Untitled(sentiment)>>,
     <<NewsItem(TitleNo(1), sentiment), NewsItem(TitleNo(2), sentiment)>>}

InitFailOpen ==
    /\ CycleInit
    /\ openai_client = FALSE
    /\ api_key = TRUE
    /\ d_prev \in {EmptyDict}
                  \cup {[bullish |-> b, bearish |-> r, neutral |-> n] :
                           b \in RawShort("bullish"), r \in RawShort("bearish"),
                           n \in RawShort("neutral")}
    /\ d_cur \in {[bullish |-> b, bearish |-> r, neutral |-> n] :
                     b \in RawLists("bullish"), r \in RawShort("bearish"),
                     n \in RawShort("neutral")}
    /\ d_result = "pending"
    /\ ComposerIdle

SpecFailOpen == InitFailOpen /\ [][NextDetect]_vars

(***************************************************************************)
(* The composer alone: format_telegram_message applied to bounded inputs   *)
(***************************************************************************)
\* a text of 160 characters, no two of its prefixes alike
LongText ==
    "a123456789" \o "b123456789" \o "c123456789" \o "d123456789"
    \o "e123456789" \o "f123456789" \o "g123456789" \o "h123456789"
    \o "i123456789" \o "j123456789" \o "k123456789" \o "l123456789"
    \o "m123456789" \o "n123456789" \o "o123456789" \o "p123456789"

\* a title of n characters
TitleOfLen(n) == SubSeq(LongText, 1, n)

\* the posts the harness draws from: short and long titles, on both sides
\* of the limit of 100 characters, with no, one and two currency codes
Pool ==
    <<[title |-> TitleOfLen(4), currencies |-> <<"BTC">>, source |-> "CoinDesk"],
      [title |-> TitleOfLen(101), currencies |-> <<>>, source |-> "Decrypt"],
      [title |-> TitleOfLen(100), currencies |-> <<"BTC", "ETH">>, source |-> "CoinDesk"],
      [title |-> TitleOfLen(130), currencies |-> <<"ETH">>, source |-> "Unknown"],
      [title |-> TitleOfLen(99), currencies |-> <<>>, source |-> "The Block"]>>

\* the item a fetch builds from the k-th post of the pool
PoolItem(k, sentiment) ==
    FullItem(Pool[k].title, "https://cryptopanic.com/news/" \o Str(k), Pool[k].source,
             Pool[k].currencies, sentiment)

\* a category list: n consecutive posts of the pool, from post o + 1 on
CompList(n, o, sentiment) ==
    [i \in 1..n |-> PoolItem(((o + i - 1) % Len(Pool)) + 1, sentiment)]

\* a malformed list: the k-th item has lost one of its keys
Damage(items, k, key) ==
    [items EXCEPT ![k] = [f \in (DOMAIN items[k]) \ {key} |-> items[k][f]]]

\* the bullish lists of the harness: every well-formed list of at most
\* MaxBlock items and, of those that start at the first post, every list
\* with one item damaged
CompLists(sentiment) ==
    {CompList(n, o, sentiment) : n \in 0..MaxBlock, o \in 0..(Len(Pool) - 1)}
    \cup UNION {{Damage(CompList(n, 0, sentiment), k, ItemKeys[f]) :
                     k \in 1..n, f \in 1..Len(ItemKeys)} : n \in 1..MaxBlock}

\* the lists of the other two categories: empty, one or two items, and
\* one item without a title
CompShort(sentiment) ==
    {CompList(0, 0, sentiment), CompList(1, 1, sentiment), CompList(2, 3, sentiment),
     Damage(CompList(1, 1, sentiment), 1, "title")}

\* the fud_analysis arguments: none, or a text
CompNarratives == {"", "Sentiment is mixed."}

InitCompose ==
    /\ CycleInit
    /\ openai_client = FALSE
    /\ api_key = TRUE
    /\ DetectorIdle
    /\ c_news \in {[bullish |-> b, bearish |-> r, neutral |-> n] :
                      b \in CompLists("bullish"), r \in CompShort("bearish"),
                      n \in CompShort("neutral")}
    /\ c_given = c_news
    /\ c_fud \in CompNarratives
    /\ c_out = NoData

\* self.format_telegram_message(news_data, fud_analysis): the function
\* reads its arguments and assigns to its locals only
Compose ==
    /\ c_out = NoData
    /\ c_out' = format_telegram_message(c_news, c_fud)
    /\ UNCHANGED <<cycleVars, detVars, c_news, c_given, c_fud>>

NextCompose == Compose

SpecCompose == InitCompose /\ [][NextCompose]_vars

(***************************************************************************)
(* Properties                                                              *)
(***************************************************************************)
\* the cycle of t returns in this step
Returns(t) == pc[t] \in InFlight /\ pc'[t] \notin InFlight

\* C1: last_sent_news changes only in the step in which the send_message of
\* a cycle returns successfully, that cycle's detector having returned true,
\* and it then is exactly that cycle's news_data; a cycle that returns with
\* any other outcome does not touch it in the step in which it returns, and
\* no other step of a cycle touches it.
C1_CommitOnlyOnDelivery ==
    [][/\ last_sent_news' # last_sent_news =>
            \E t \in Triggers :
                /\ pc[t] = "sending"
                /\ Returns(t)
                /\ decided[t] = "yes"
                /\ delivered'[t] = "yes"
                /\ outcome'[t] = "sent"
       /\ \A t \in Triggers :
            Returns(t) =>
                last_sent_news' = IF outcome'[t] = "sent" THEN news_data[t]
                                  ELSE last_sent_news]_vars

\* a cycle has ended sent and last_sent_news is its snapshot
C1_Witness ==
    /\ prev.outcome = "sent"
    /\ last_sent_news = prev.news
    /\ last_sent_news # EmptyDict

\* C2: a cycle that directly follows, with the same snapshot, a cycle whose
\* delivery failed makes the decision of the failed cycle (the detector
\* returns true), and ends sent if its own delivery succeeds.
C2_RetryAfterFailedDelivery ==
    \A t \in Triggers :
        follows[t] = "error" =>
            /\ decided[t] = "yes"
            /\ outcome[t] \in {"none", "sent", "error"}
            /\ delivered[t] = "no" => outcome[t] = "error"
            /\ delivered[t] = "yes" => outcome[t] = "sent" /\ last_sent_news # EmptyDict

\* a cycle has followed a failed delivery of the same snapshot and has ended sent
C2_Witness ==
    \E t \in Triggers :
        follows[t] = "error" /\ outcome[t] = "sent" /\ prev.outcome = "sent"

\* C3: at most one task is inside send_news_update at a time.
C3_Serialized == Cardinality({t \in Triggers : pc[t] \in InFlight}) <= 1

\* C4: a cycle that directly follows, with the same snapshot, a cycle that
\* ended sent ends not-significant and makes no delivery attempt; a cycle
\* whose delivery succeeded ended sent.
C4_SecondCycleSkips ==
    \A t \in Triggers :
        /\ follows[t] = "sent" =>
              /\ outcome[t] = "not_significant"
              /\ decided[t] = "no"
              /\ attempts[t] = 0
              /\ narr_reqs[t] = 0
        /\ delivered[t] = "yes" => outcome[t] = "sent"

\* the second of two cycles with the same snapshot has ended not-significant
C4_Witness ==
    \E t \in Triggers :
        follows[t] = "sent" /\ outcome[t] = "not_significant" /\ pc[t] \notin InFlight

\* the titles of category s that are in cur and not in last, found by
\* looking for each title of the universe in the two lists
AddedIn(last, cur, s) ==
    {x \in DetTitles :
        /\ \E i \in 1..Len(cur[s]) : cur[s][i].title = x
        /\ ~ \E j \in 1..Len(last[s]) : last[s][j].title = x}

\* k: the additions, one set of (category, title) pairs
AddedPairs(last, cur) ==
    {p \in SentimentSet \X DetTitles : p[2] \in AddedIn(last, cur, p[1])}

\* C5: with a previous snapshot, the detector returns true exactly when
\* the additions, counted per category, are at least 3; it returns false
\* when nothing was added, whatever was removed.
C5_ThresholdOnAdditions ==
    (d_result \in {"yes", "no"} /\ d_prev # EmptyDict) =>
        /\ d_result = "yes" <=> Cardinality(AddedPairs(d_prev, d_cur)) >= 3
        /\ AddedPairs(d_prev, d_cur) = {} => d_result = "no"

\* the detector has returned true on exactly 3 additions with removals
C5_Witness ==
    /\ d_result = "yes"
    /\ d_prev # EmptyDict
    /\ Cardinality(AddedPairs(d_prev, d_cur)) = 3
    /\ \E s \in SentimentSet : Len(d_prev[s]) > 0 /\ Len(d_cur[s]) = 0

\* C6: while nothing has been committed, no cycle is skipped as
\* not-significant: every non-empty snapshot fetched goes on to delivery.
C6_FirstSnapshotIsSent ==
    last_sent_news = EmptyDict =>
        \A t \in Triggers :
            /\ outcome[t] # "not_significant"
            /\ decided[t] # "no"
            /\ got_items[t] = "yes" => decided[t] = "yes"

\* a first snapshot of fewer than 3 items is being delivered
C6_Witness ==
    /\ last_sent_news = EmptyDict
    /\ \E t \in Triggers :
          /\ pc[t] = "sending"
          /\ attempts[t] = 1
          /\ Len(news_data[t].bullish) + Len(news_data[t].bearish)
               + Len(news_data[t].neutral) < 3

\* C7: a cycle that fetched a snapshot without items has ended no-content,
\* the detector's result unused, no narrative requested, no delivery
\* attempted; an empty snapshot is never the committed state.
C7_EmptySnapshotSkips ==
    /\ \A t \in Triggers :
          got_items[t] = "no" =>
              /\ pc[t] \notin InFlight
              /\ outcome[t] = "no_news"
              /\ decided[t] = "none"
              /\ narr_reqs[t] = 0
              /\ attempts[t] = 0
              /\ delivered[t] = "none"
    /\ last_sent_news # EmptyNews

\* an empty snapshot was skipped while nothing had been committed
C7_Witness ==
    /\ last_sent_news = EmptyDict
    /\ \E t \in Triggers : got_items[t] = "no" /\ outcome[t] = "no_news"

\* C8: a cycle whose fetch logged a failure makes no narrative request and
\* no delivery attempt.
C8_FailedFetchSkips ==
    \A t \in Triggers :
        fetch_err[t] =>
            /\ pc[t] \notin {"narrating", "sending"}
            /\ narr_reqs[t] = 0
            /\ attempts[t] = 0

\* C9: the /news caller is told "sent" only if the cycle it started ended sent.
C9_ReplyReflectsOutcome ==
    reply = "sent" => outcome["cmd"] = "sent"

\* C10: a narrative is requested only after the detector returned true;
\* a cycle whose detector returned true attempts delivery exactly once,
\* whatever the narrative call did, and when it has returned its outcome
\* is sent if the delivery succeeded and error if it failed.
C10_NarrativeNeverBlocks ==
    \A t \in Triggers :
        /\ narr_reqs[t] > 0 => decided[t] = "yes"
        /\ attempts[t] <= 1
        /\ pc[t] = "sending" => attempts[t] = 1 /\ message[t] # NoData
        /\ (decided[t] = "yes" /\ pc[t] \notin InFlight) =>
              /\ attempts[t] = 1
              /\ delivered[t] \in {"yes", "no"}
              /\ outcome[t] = IF delivered[t] = "yes" THEN "sent" ELSE "error"

\* a delivery is attempted after a narrative call that gave no text
C10_Witness ==
    \E t \in Triggers :
        /\ pc[t] = "sending"
        /\ narr_reqs[t] = 1
        /\ fud_analysis[t] = ""
        /\ attempts[t] = 1

\* the ways a cycle ends: the log lines of send_news_update
Outcomes == {"no_news", "not_significant", "sent", "error"}

\* a periodic cycle has ended, with whatever outcome
TimerCycleOver == pc["timer"] \notin InFlight /\ outcome["timer"] \in Outcomes

\* C11: whatever the outcome of a periodic cycle (nothing fetched, nothing
\* significant, sent, or an exception caught by the except clause), the
\* scheduler goes back to its sleep and later starts another cycle.  With
\* an API key the next cycle is seen suspended in its fetch; without one a
\* cycle has no await and leaves the state as it found it, so what is
\* stated is that the scheduler sleeps with its next cycle enabled.
C11_SchedulerSurvives ==
    /\ (api_key /\ TimerCycleOver) ~> (pc["timer"] = "fetching")
    /\ []((~api_key /\ TimerCycleOver) => (pc["timer"] = "idle" /\ ENABLED TimerFire))

\* the scheduler has started a cycle after a cycle of its own that ended
\* in the except clause (no /news command has been given)
C11_Witness ==
    /\ pc["timer"] = "fetching"
    /\ prev.outcome = "error"
    /\ pc["cmd"] = "idle"
    /\ outcome["cmd"] = "none"
    /\ reply = "none"

\* C12: once the shutdown signal has been given no periodic cycle starts,
\* and last_sent_news changes only in the step in which a send_message
\* returns successfully, to the whole snapshot of that cycle: a cycle that
\* is abandoned, at whatever await, leaves it as it was.
C12_ShutdownStopsTimer ==
    [][/\ shutdown # "running" =>
            (pc'["timer"] = "fetching" => pc["timer"] = "fetching")
       /\ last_sent_news' # last_sent_news =>
            \E t \in Triggers :
                /\ pc[t] = "sending"
                /\ delivered'[t] = "yes"
                /\ last_sent_news' = news_data[t]
       /\ \A t \in Triggers :
            pc'[t] = "cancelled" => last_sent_news' = last_sent_news]_vars

\* the state half of C12 alone: whatever the shutdown does, last_sent_news
\* is the snapshot of the latest delivery that returned, or still empty
StateIntactThroughShutdown ==
    /\ last_sent_news = last_delivered
    /\ [][\A t \in Triggers :
            (pc[t] \in InFlight /\ pc'[t] = "cancelled") =>
                last_sent_news' = last_sent_news]_vars

\* a cycle was abandoned while its send_message was pending, after an
\* earlier delivery had been committed
AbandonedWhileSending ==
    /\ pc["timer"] = "cancelled"
    /\ attempts["timer"] = 1
    /\ delivered["timer"] = "none"
    /\ last_sent_news # EmptyDict

\* the composer has returned a message (not the text of its except clause)
Composed == c_out # NoData /\ c_out[1].block # "error" /\ c_out[1].block # "raised"

\* the positions of the sections of c_out that are the block of category s
BlocksOf(s) == {k \in 1..Len(c_out) : c_out[k].block = s}

\* entry e shows item it: the same url and source
Shows(e, it) == e.url = it.url /\ e.source = it.source

\* C13: the block of a category of n items holds n entries if n <= 5 and
\* 5 entries if n > 5; entry i is numbered i and shows the i-th item of
\* the snapshot.
C13_BlockShowsFirstFive ==
    Composed =>
        \A s \in SentimentSet :
            \A k \in BlocksOf(s) :
                LET n == Len(c_given[s])
                    entries == c_out[k].entries
                IN  /\ n <= 5 => Len(entries) = n
                    /\ n > 5 => Len(entries) = 5
                    /\ \A i \in 1..Len(entries) :
                          entries[i].num = i /\ Shows(entries[i], c_given[s][i])

\* a list of more than 5 items has been rendered as 5 entries
C13_Witness ==
    /\ Composed
    /\ Len(c_given.bullish) = 6
    /\ \E k \in BlocksOf("bullish") :
          Len(c_out[k].entries) = 5 /\ c_out[k].entries[5].num = 5

\* the sections a message is to have for this snapshot and narrative
Due(b) ==
    \/ b \in {"header", "footer"}
    \/ b = "analysis" /\ c_fud # ""
    \/ b \in SentimentSet /\ Len(c_given[b]) > 0

\* C14: the sections of a message are, in this order, the header, the
\* narrative block if and only if a non-empty narrative was given, the
\* bullish, bearish and neutral blocks, each if and only if the category
\* has an item, and the footer; the narrative block holds the narrative.
C14_SectionOrder ==
    Composed =>
        /\ [k \in 1..Len(c_out) |-> c_out[k].block]
              = SelectSeq(<<"header", "analysis", "bullish", "bearish", "neutral", "footer">>,
                          Due)
        /\ \A k \in 1..Len(c_out) : c_out[k].block = "analysis" => c_out[k].text = c_fud

\* 4 bullish items and nothing else: header, bullish block of 4 entries, footer
C14_Witness ==
    /\ Composed
    /\ Len(c_given.bullish) = 4
    /\ Len(c_given.bearish) = 0
    /\ Len(c_given.neutral) = 0
    /\ c_fud = ""
    /\ Len(c_out) = 3
    /\ c_out[2].block = "bullish"
    /\ Len(c_out[2].entries) = 4

\* the (category, position) pairs of the entries of c_out
EntryAt == {p \in SentimentSet \X (1..DisplayCap) :
               \E k \in BlocksOf(p[1]) : p[2] <= Len(c_out[k].entries)}

\* the entry of c_out at a pair of EntryAt
Entry(p) == c_out[CHOOSE k \in BlocksOf(p[1]) : TRUE].entries[p[2]]

\* C15: a title of more than 100 characters is shown as its first 97
\* characters followed by "...", 100 characters in all; a title of at most
\* 100 characters is shown as it is.
C15_TitleTruncation ==
    Composed =>
        \A p \in EntryAt :
            LET title == c_given[p[1]][p[2]].title
                shown == Entry(p).title
            IN  /\ Len(title) > 100 =>
                      /\ Len(shown) = 100
                      /\ SubSeq(shown, 1, 97) = SubSeq(title, 1, 97)
                      /\ SubSeq(shown, 98, 100) = "..."
                /\ Len(title) <= 100 => shown = title

\* a title of exactly 100 characters is shown whole next to one of 101
\* characters that is cut
C15_Witness ==
    /\ Composed
    /\ \E p \in EntryAt :
          Len(c_given[p[1]][p[2]].title) = 100 /\ Len(Entry(p).title) = 100
          /\ SubSeq(Entry(p).title, 98, 100) # "..."
    /\ \E p \in EntryAt :
          Len(c_given[p[1]][p[2]].title) = 101 /\ Len(Entry(p).title) = 100
          /\ SubSeq(Entry(p).title, 98, 100) = "..."

\* word occurs in text
Contains(text, word) ==
    \E i \in 1..Len(text) :
        i + Len(word) - 1 <= Len(text) /\ SubSeq(text, i, i + Len(word) - 1) = word

\* C16: every entry shows the currency codes of its item, and the entry
\* of an item without codes shows the text "general market".
C16_CodesOrGeneralMarket ==
    Composed =>
        \A p \in EntryAt :
            LET codes == c_given[p[1]][p[2]].currencies
                shown == Entry(p).currencies
            IN  /\ \A c \in 1..Len(codes) : Contains(shown, codes[c])
                /\ Len(codes) = 0 => Contains(shown, "general market")

\* the items of c_given the composer visits: the first 5 of each category
VisitedItems ==
    {c_given[p[1]][p[2]] :
        p \in {q \in SentimentSet \X (1..DisplayCap) : q[2] <= Len(c_given[q[1]])}}

\* an item the composer visits lacks one of the keys it reads
Malformed ==
    \E it \in VisitedItems : {"currencies", "title", "url", "source"} \ DOMAIN it # {}

\* C17: the composer always returns a text and leaves the snapshot as it
\* was given; if an item it visits lacks a key the text is the error
\* description "Error formatting news: ..." naming a missing key, and
\* otherwise it is a message.
C17_ComposerNeverFails ==
    c_out # NoData =>
        /\ c_news = c_given
        /\ \A k \in 1..Len(c_out) : c_out[k].block # "raised"
        /\ Malformed =>
              /\ Len(c_out) = 1
              /\ c_out[1].block = "error"
              /\ \E it \in VisitedItems :
                    \E key \in {"currencies", "title", "url", "source"} \ DOMAIN it :
                        c_out[1].text = "Error formatting news: '" \o key \o "'"
        /\ ~Malformed => Composed

\* the error description has been returned for a snapshot whose third
\* bullish item has no source
C17_Witness ==
    /\ c_out # NoData
    /\ Len(c_given.bullish) >= 3
    /\ "source" \notin DOMAIN c_given.bullish[3]
    /\ c_out[1].block = "error"
    /\ c_out[1].text = "Error formatting news: 'source'"

\* C18: no delivery repeats the snapshot of the delivery before it: two
\* cycles that fetched the same snapshot do not both deliver it.
C18_NoDuplicateDelivery ==
    [][\A t \in Triggers :
          (pc[t] = "sending" /\ delivered'[t] = "yes") =>
              news_data[t] # last_delivered]_vars

\* C19: last_sent_news is empty exactly while no send_message has
\* returned; from then on it is the snapshot of the latest send_message
\* that returned, which holds an item; once set it is never empty again,
\* and it changes in no step other than the return of a send_message.
C19_StateTracksDeliveries ==
    /\ [](last_sent_news = last_delivered)
    /\ [](last_sent_news # EmptyDict =>
             Len(last_sent_news.bullish) + Len(last_sent_news.bearish)
               + Len(last_sent_news.neutral) > 0)
    /\ [][last_sent_news # EmptyDict => last_sent_news' # EmptyDict]_vars
    /\ [][last_sent_news' # last_sent_news =>
             \E t \in Triggers : pc[t] = "sending" /\ delivered'[t] = "yes"]_vars

\* a delivery has failed after an earlier one was committed
C19_Witness ==
    /\ last_sent_news # EmptyDict
    /\ last_sent_news = last_delivered
    /\ \E t \in Triggers : pc[t] \notin InFlight /\ delivered[t] = "no"

\* a snapshot holds an item without a title
HasUntitled(snap) ==
    \E s \in SentimentSet \cap DOMAIN snap :
        \E i \in 1..Len(snap[s]) : "title" \notin DOMAIN snap[s][i]

\* C20: the detector returns a truth value on every input, and with a
\* previous snapshot it returns true whenever an item of the current or of
\* the previous snapshot has no title.
C20_DetectorFailsOpen ==
    d_result # "pending" =>
        /\ d_result \in {"yes", "no"}
        /\ (d_prev # EmptyDict /\ (HasUntitled(d_cur) \/ HasUntitled(d_prev))) =>
              d_result = "yes"

\* the detector has returned true for a snapshot of one untitled item,
\* with a previous snapshot whose items all have titles
C20_Witness ==
    /\ d_result = "yes"
    /\ d_prev # EmptyDict
    /\ ~HasUntitled(d_prev)
    /\ HasUntitled(d_cur)
    /\ Len(d_cur.bullish) + Len(d_cur.bearish) + Len(d_cur.neutral) = 1

====
